---- MODULE Spec2Model ----
(***************************************************************************)
(* Tax-analysis routes of ai2-ai-modules: the batch pipeline               *)
(* (router.post('/batch-analyze') -> processTaxBatch -> callOpenAIBatch),  *)
(* the decoders of the model's replies, the optimized single route,        *)
(* APILogger with its log routes, the admin gate of the logs router and    *)
(* the write queue of LoggingService.                                      *)
(*                                                                         *)
(* Conventions of the model                                                *)
(*  - a JavaScript string is a sequence of one-character strings;          *)
(*  - a fixed message of the code ('AI analysis completed', ...) is a      *)
(*    one-element sequence holding the whole message, so that no reply     *)
(*    text can be equal to it;                                             *)
(*  - confidence is kept in hundredths: 0.3 is 30, 1.0 is 100;             *)
(*  - null / undefined is the record NULL.                                 *)
(***************************************************************************)
EXTENDS Integers, Sequences, FiniteSets, TLC

VARIABLES
    \* ---- process lifetime of the tax routes
    served,        \* requests received so far
    aiSeen,        \* descriptions an EARLIER request resolved by AI with confidence 0.8
    \* ---- router.post('/batch-analyze')
    pc,            \* position of the handler
    transactions,  \* req.body.transactions
    i,             \* loop offset of the route
    results,       \* the route's results array
    response,      \* what res.json / res.status().json sent
    \* ---- processTaxBatch
    batch,         \* its parameter `transactions` (the slice)
    k,             \* transactions of the slice whose cache lookup completed
    batchResults,  \* its local `results`
    transactionsNeedingAI,
    aiResults,
    m,             \* index of the phase-3 loop
    \* ---- observations
    prompts,       \* prompts sent to the provider by this request, in order
    callFailed,    \* the external call of the current slice threw / had no content
    slices,        \* the slices handed to processTaxBatch by this request, in order
    replied,       \* what the external call of the current slice answered, per prompt entry
    saveCalls,     \* arguments of the saveTaxCache calls that returned
    saveThrew,     \* ids whose saveTaxCache call threw during this request
    pauses,        \* pacing delays awaited by this request
    \* ---- decoders, applied to drawn replies
    dpc, dN, dAnalysis, dAnalysisB, dEntry, dOut, dOutB,
    \* ---- router.post('/analyze-single')
    sServices,     \* batchEngine and referenceParser were constructed at module load
    spc, sReq, sReference, sEngineCalls, sResponse, sServed,
    \* ---- APILogger and the log routes
    lLog,          \* logs/api-requests.log: its lines, each the JSON texts written on it
    lNewline,      \* the file is empty or ends with '\n'
    lNow,          \* the clock, in days
    lCalls,        \* what the callers did: per request id, the logRequest arguments and the outcome logged
    lCleans,       \* cleanOldLogs calls so far
    lKept,         \* entries the latest cleanOldLogs read that were newer than its cutoff
    lOut,          \* value the latest call returned, if it was searchLogs / report / analytics / clean
    \* ---- concurrent invocations of router.post('/batch-analyze')
    cHandlers,     \* per invocation, the locals of the handler
    cFlight,       \* external calls issued and not yet settled
    \* ---- the logs router behind requireAdminAuth
    gToken,        \* process.env.ADMIN_API_TOKEN
    gpc,           \* position of the request in the router
    gReq,          \* the request: route and the two headers
    gStatus,       \* status of the response sent, if any
    gReached,      \* the handler the request reached, if any
    \* ---- LoggingService
    logQueue,      \* this.logQueue
    isProcessing,  \* this.isProcessing
    qDrains,       \* running processLogQueue calls: the entries each has still to write
    qTimers,       \* setTimeout(() => this.processLogQueue(), 0) callbacks not yet run
    qCombined,     \* logs/ai-modules-combined.log: the entries written, in order
    qQueued,       \* every entry passed to queueLog, in order
    qFailed,       \* ids of the entries whose appendFile was rejected
    qRejected      \* ids of the entries whose JSON.stringify threw inside writeLog

pipeVars == <<served, aiSeen, pc, transactions, i, results, response, batch, k,
              batchResults, transactionsNeedingAI, aiResults, m, prompts,
              callFailed, replied, slices, saveCalls, saveThrew, pauses>>
decVars == <<dpc, dN, dAnalysis, dAnalysisB, dEntry, dOut, dOutB>>
singleVars == <<sServices, spc, sReq, sReference, sEngineCalls, sResponse, sServed>>
logVars == <<lLog, lNewline, lNow, lCalls, lCleans, lKept, lOut>>
concVars == <<cHandlers, cFlight>>
gateVars == <<gToken, gpc, gReq, gStatus, gReached>>
queueVars == <<logQueue, isProcessing, qDrains, qTimers, qCombined, qQueued, qFailed, qRejected>>
extraVars == <<concVars, gateVars, queueVars>>
baseVars == <<pipeVars, decVars, singleVars, logVars>>
vars == <<baseVars, extraVars>>

NULL == [null |-> TRUE]

Min(a, b) == IF a < b THEN a ELSE b
Max(a, b) == IF a > b THEN a ELSE b

(***************************************************************************)
(* JavaScript string and number primitives the decoders use                *)
(***************************************************************************)
Digits == <<"0", "1", "2", "3", "4", "5", "6", "7", "8", "9">>
UpperCase == <<"A", "B", "C", "D", "E", "F", "G", "H", "I", "J", "K", "L", "M",
               "N", "O", "P", "Q", "R", "S", "T", "U", "V", "W", "X", "Y", "Z">>
LowerCase == <<"a", "b", "c", "d", "e", "f", "g", "h", "i", "j", "k", "l", "m",
               "n", "o", "p", "q", "r", "s", "t", "u", "v", "w", "x", "y", "z">>
WhiteSpace == {" "}

IsDigit(c) == \E d \in 1..10 : Digits[d] = c
DigitVal(c) == (CHOOSE d \in 1..10 : Digits[d] = c) - 1

\* `${transactionNum}`: the decimal digits of a number
RECURSIVE NumToStr(_)
NumToStr(n) ==
    IF n < 10 THEN <<Digits[n + 1]>>
    ELSE NumToStr(n \div 10) \o <<Digits[(n % 10) + 1]>>

startsWith(s, p) == Len(p) <= Len(s) /\ SubSeq(s, 1, Len(p)) = p

includes(s, p) == \E j \in 0..(Len(s) - Len(p)) : SubSeq(s, j + 1, j + Len(p)) = p

\* one-based position of the first c in s at or after position p, 0 if none
RECURSIVE ScanFor(_, _, _)
ScanFor(s, c, p) ==
    IF p > Len(s) THEN 0 ELSE IF s[p] = c THEN p ELSE ScanFor(s, c, p + 1)

\* zero-based index of the first c in s, -1 when there is none
indexOf(s, c) == ScanFor(s, c, 1) - 1

\* s.substring(from), from zero-based
substring(s, from) == SubSeq(s, from + 1, Len(s))

\* one-based position of the first non-blank of s at or after p, Len(s) + 1 if none
RECURSIVE SkipBlanks(_, _)
SkipBlanks(s, p) ==
    IF p <= Len(s) /\ s[p] \in WhiteSpace THEN SkipBlanks(s, p + 1) ELSE p

\* one-based position of the last non-blank of s at or before p, 0 if none
RECURSIVE SkipBlanksBack(_, _)
SkipBlanksBack(s, p) ==
    IF p >= 1 /\ s[p] \in WhiteSpace THEN SkipBlanksBack(s, p - 1) ELSE p

trim(s) == SubSeq(s, SkipBlanks(s, 1), SkipBlanksBack(s, Len(s)))

toLowerChar(c) ==
    IF \E j \in 1..26 : UpperCase[j] = c
    THEN LowerCase[CHOOSE j \in 1..26 : UpperCase[j] = c]
    ELSE c

RECURSIVE toLowerCase(_)
toLowerCase(s) ==
    IF s = <<>> THEN <<>> ELSE <<toLowerChar(Head(s))>> \o toLowerCase(Tail(s))

\* s.split(sep) for a one-character separator
RECURSIVE split(_, _)
split(s, sep) ==
    LET j == indexOf(s, sep)
    IN  IF j = -1 THEN <<s>>
        ELSE <<SubSeq(s, 1, j)>> \o split(substring(s, j + 1), sep)

\* number of consecutive digits of s from position p (one-based)
RECURSIVE DigitRun(_, _)
DigitRun(s, p) ==
    IF p <= Len(s) /\ IsDigit(s[p]) THEN 1 + DigitRun(s, p + 1) ELSE 0

RECURSIVE DigitsValue(_)
DigitsValue(ds) ==
    IF ds = <<>> THEN 0
    ELSE DigitsValue(SubSeq(ds, 1, Len(ds) - 1)) * 10 + DigitVal(ds[Len(ds)])

NaN == [nan |-> TRUE, val |-> 0]
Num(v) == [nan |-> FALSE, val |-> v]

\* parseFloat: leading blanks, a sign, digits, a fraction; the longest numeric
\* prefix counts and the rest is ignored; NaN without any digit.  The value is
\* in hundredths (exact for at most two fraction digits; no exponent form).
parseFloat(str) ==
    LET s == trim(str)
        signed == Len(s) >= 1 /\ s[1] \in {"-", "+"}
        neg == Len(s) >= 1 /\ s[1] = "-"
        p == IF signed THEN 2 ELSE 1
        ni == DigitRun(s, p)
        hasDot == p + ni <= Len(s) /\ s[p + ni] = "."
        nf == IF hasDot THEN DigitRun(s, p + ni + 1) ELSE 0
        ip == DigitsValue(SubSeq(s, p, p + ni - 1))
        f1 == IF nf >= 1 THEN DigitVal(s[p + ni + 1]) ELSE 0
        f2 == IF nf >= 2 THEN DigitVal(s[p + ni + 2]) ELSE 0
        mag == ip * 100 + f1 * 10 + f2
    IN  IF ni + nf = 0 THEN NaN ELSE Num(IF neg THEN -mag ELSE mag)

\* parseInt (radix 10): leading blanks, a sign, digits; NaN without a digit
parseInt(str) ==
    LET s == trim(str)
        signed == Len(s) >= 1 /\ s[1] \in {"-", "+"}
        neg == Len(s) >= 1 /\ s[1] = "-"
        p == IF signed THEN 2 ELSE 1
        ni == DigitRun(s, p)
        mag == DigitsValue(SubSeq(s, p, p + ni - 1))
    IN  IF ni = 0 THEN NaN ELSE Num(IF neg THEN -mag ELSE mag)

\* lines.find(pred): the one-based position of the first line for which the
\* predicate holds, 0 for undefined
FindIndex(lines, P(_)) ==
    LET hits == {j \in 1..Len(lines) : P(lines[j])}
    IN  IF hits = {} THEN 0 ELSE CHOOSE j \in hits : \A h \in hits : j <= h

\* l.match(new RegExp(`^\\s*${num}\\s*:`))
matchesIndexRegExp(l, num) ==
    LET a == SkipBlanks(l, 1)
        b == SkipBlanks(l, a + Len(num))
    IN  /\ a + Len(num) - 1 <= Len(l)
        /\ SubSeq(l, a, a + Len(num) - 1) = num
        /\ b <= Len(l)
        /\ l[b] = ":"

(***************************************************************************)
(* Results of a classification.  The list fields documentationRequired,    *)
(* warnings, suggestions and relatedRules are fixed by every path that     *)
(* builds a result and are left out.                                       *)
(***************************************************************************)
Chars_d == <<"d">>
Chars_c == <<"c">>
Chars_r == <<"r">>
Chars_b == <<"b">>
Chars_1 == <<"1">>
Chars_true == <<"t", "r", "u", "e">>
Chars_yes == <<"y", "e", "s">>
Chars_deductible == <<"d", "e", "d", "u", "c", "t", "i", "b", "l", "e">>
Chars_confidence == <<"c", "o", "n", "f", "i", "d", "e", "n", "c", "e">>
Chars_reasoning == <<"r", "e", "a", "s", "o", "n", "i", "n", "g">>
Chars_business_use == <<"b", "u", "s", "i", "n", "e", "s", "s", "_", "u", "s", "e">>
Chars_category == <<"c", "a", "t", "e", "g", "o", "r", "y">>
Chars_Personal == <<"Personal">>

MakeResult(d, c, r, b, t) ==
    [isTaxDeductible |-> d, confidence |-> c, reasoning |-> r,
     businessUsePercentage |-> b, taxCategory |-> t]

\* the result with which callOpenAIBatch answers a failed call, in its place
getDefaultSingleResult_Failed ==
    MakeResult(FALSE, 0, <<"AI analysis failed - requires manual review">>, 0, Chars_Personal)

getDefaultSingleResult ==
    MakeResult(FALSE, 30, <<"Could not parse AI response - manual review required">>,
               0, Chars_Personal)

\* one iteration of the loop over the '|' segments of a compact line
parseOptimizedTaxPart(result, part) ==
    LET trimmedPart == trim(part)
        colonIndex == indexOf(trimmedPart, ":")
        key == toLowerCase(trim(SubSeq(trimmedPart, 1, colonIndex)))
        value == trim(substring(trimmedPart, colonIndex + 1))
        confValue == parseFloat(value)
        businessValue == parseInt(value)
    IN  IF colonIndex = -1 THEN result
        ELSE IF key \in {Chars_d, Chars_deductible}
        THEN [result EXCEPT !.isTaxDeductible =
                  (value = Chars_1 \/ toLowerCase(value) = Chars_true)]
        ELSE IF key \in {Chars_c, Chars_confidence}
        THEN [result EXCEPT !.confidence =
                  IF confValue.nan THEN 50 ELSE Max(0, Min(100, confValue.val))]
        ELSE IF key \in {Chars_r, Chars_reasoning}
        THEN [result EXCEPT !.reasoning =
                  IF value = <<>> THEN <<"AI analysis completed">> ELSE value]
        ELSE IF key \in {Chars_b, Chars_business_use}
        THEN [result EXCEPT !.businessUsePercentage =
                  IF businessValue.nan THEN 0 ELSE Max(0, Min(100, businessValue.val))]
        ELSE result

RECURSIVE parseOptimizedTaxParts(_, _)
parseOptimizedTaxParts(result, parts) ==
    IF parts = <<>> THEN result
    ELSE parseOptimizedTaxParts(parseOptimizedTaxPart(result, Head(parts)), Tail(parts))

parseOptimizedTaxLine(content) ==
    parseOptimizedTaxParts(
        MakeResult(FALSE, 50, <<"AI analysis completed">>, 0, Chars_Personal),
        split(content, "|"))

\* analysis.split('\n').filter(line => line.trim().length > 0)
NonBlankLines(analysis) == SelectSeq(split(analysis, "\n"), LAMBDA l : trim(l) # <<>>)

\* the position in `lines` of the line taken for transaction number num, 0 if none
FindLineFor(lines, num) ==
    LET exact == FindIndex(lines, LAMBDA l : startsWith(l, num \o <<":">>))
        loose == FindIndex(lines, LAMBDA l : includes(l, num \o <<":">>))
        regex == FindIndex(lines, LAMBDA l : matchesIndexRegExp(l, num))
    IN  IF exact # 0 THEN exact ELSE IF loose # 0 THEN loose ELSE regex

parseBatchTaxAnalysisResponseOptimized(analysis, txs) ==
    LET lines == NonBlankLines(analysis)
    IN  [n \in 1..Len(txs) |->
            LET at == FindLineFor(lines, NumToStr(n))
            IN  IF at # 0
                THEN parseOptimizedTaxLine(
                         trim(substring(lines[at], indexOf(lines[at], ":") + 1)))
                ELSE getDefaultSingleResult]

(***************************************************************************)
(* The key:value decoder of a single reply (parseTaxAnalysisResponse)      *)
(***************************************************************************)
\* const [key, value] = line.split(':').map(s => s.trim()); one switch pass
parseTaxAnalysisLine(acc, line) ==
    LET parts == split(line, ":")
        key == toLowerCase(trim(parts[1]))
        hasValue == Len(parts) >= 2
        value == IF hasValue THEN trim(parts[2]) ELSE <<>>
        conf == parseFloat(value)
        bus == parseInt(value)
    IN  IF key = Chars_deductible
        THEN [acc EXCEPT !.isTaxDeductible =
                  hasValue /\ toLowerCase(value) \in {Chars_true, Chars_yes}]
        ELSE IF key = Chars_confidence
        THEN [acc EXCEPT !.confidence =
                  IF conf.nan \/ conf.val = 0 THEN 50 ELSE conf.val]
        ELSE IF key = Chars_reasoning
        THEN [acc EXCEPT !.reasoning =
                  IF value = <<>> THEN <<"AI analysis completed">> ELSE value]
        ELSE IF key = Chars_business_use
        THEN [acc EXCEPT !.businessUsePercentage =
                  IF bus.nan THEN 0 ELSE bus.val]
        ELSE IF key = Chars_category
        THEN [acc EXCEPT !.taxCategory =
                  IF value = <<>> THEN Chars_Personal ELSE value]
        ELSE acc

RECURSIVE parseTaxAnalysisLines(_, _)
parseTaxAnalysisLines(acc, lines) ==
    IF lines = <<>> THEN acc
    ELSE parseTaxAnalysisLines(parseTaxAnalysisLine(acc, Head(lines)), Tail(lines))

parseTaxAnalysisResponse(analysis) ==
    IF trim(analysis) = <<>> \/ NonBlankLines(analysis) = <<>>
    THEN MakeResult(FALSE, 50, <<"Conservative analysis - requires manual review">>,
                    0, Chars_Personal)
    ELSE LET got == parseTaxAnalysisLines(
                        MakeResult(FALSE, 50, <<>>, 0, Chars_Personal),
                        NonBlankLines(analysis))
         IN  [got EXCEPT
                 !.confidence = Max(0, Min(100, got.confidence)),
                 !.reasoning = IF got.reasoning = <<>>
                               THEN <<"AI tax analysis completed">> ELSE got.reasoning,
                 !.businessUsePercentage = Max(0, Min(100, got.businessUsePercentage))]

(***************************************************************************)
(* The batch decoder of part_005 (parseBatchTaxAnalysisResponseOptimized   *)
(* over parseSingleTaxLine): exact prefix only, content by split(':', 2)   *)
(***************************************************************************)
\* const [key, value] = part.split(':').map(s => s.trim()); one switch pass
parseSingleTaxPart(result, part) ==
    LET pieces == split(part, ":")
        key == toLowerCase(trim(pieces[1]))
        hasValue == Len(pieces) >= 2
        value == IF hasValue THEN trim(pieces[2]) ELSE <<>>
        conf == parseFloat(value)
        bus == parseInt(value)
    IN  IF key = Chars_deductible
        THEN [result EXCEPT !.isTaxDeductible = hasValue /\ toLowerCase(value) = Chars_true]
        ELSE IF key = Chars_confidence
        THEN [result EXCEPT !.confidence = IF conf.nan \/ conf.val = 0 THEN 50 ELSE conf.val]
        ELSE IF key = Chars_reasoning
        THEN [result EXCEPT !.reasoning =
                  IF value = <<>> THEN <<"AI analysis completed">> ELSE value]
        ELSE IF key = Chars_business_use
        THEN [result EXCEPT !.businessUsePercentage = IF bus.nan THEN 0 ELSE bus.val]
        ELSE result

RECURSIVE parseSingleTaxParts(_, _)
parseSingleTaxParts(result, parts) ==
    IF parts = <<>> THEN result
    ELSE parseSingleTaxParts(parseSingleTaxPart(result, Head(parts)), Tail(parts))

parseSingleTaxLine(content) ==
    parseSingleTaxParts(
        MakeResult(FALSE, 50, <<"AI analysis completed">>, 0, Chars_Personal),
        split(content, "|"))

\* the result pushed when no line starts with the number
CouldNotParse005 == MakeResult(FALSE, 30, <<"Could not parse AI response">>, 0, Chars_Personal)

parseBatchTaxAnalysisResponseOptimized_005(analysis, txs) ==
    LET lines == NonBlankLines(analysis)
    IN  [n \in 1..Len(txs) |->
            LET at == FindIndex(lines, LAMBDA l : startsWith(l, NumToStr(n) \o <<":">>))
            IN  IF at # 0
                THEN parseSingleTaxLine(split(lines[at], ":")[2])
                ELSE CouldNotParse005]

(***************************************************************************)
(* The JSON decoder of a single reply (parseAITaxResponse).  JSON.parse is *)
(* the library's: a reply is given by what JSON.parse makes of it, a       *)
(* syntax error ("invalid"), the value null, or an object whose fields     *)
(* are absent (NULL) or hold a value.                                      *)
(***************************************************************************)
\* parsed.field || fallback
OrElse(field, fallback) ==
    IF field = NULL \/ field = Num(0) THEN fallback ELSE field.val

parseAITaxResponse(reply) ==
    IF reply.kind \in {"empty", "invalid", "null"}
    THEN MakeResult(FALSE, 30,
                    <<"Failed to parse AI response - manual review required">>,
                    0, Chars_Personal)
    ELSE MakeResult(reply.isDeductible,
                    OrElse(reply.confidence, 70),
                    <<"AI tax analysis completed">>,
                    OrElse(reply.businessPercent, 0),
                    Chars_Personal)


(***************************************************************************)
(* The batch pipeline: router.post('/batch-analyze') and processTaxBatch   *)
(***************************************************************************)
MaxRequests == 2
MaxTxns == 2
BATCH_SIZE == 10

WILSON_PARKING == [str |-> "WILSON PARKING MONTHLY"]

\* a transaction of the request body; a description that is no string is NULL.
\* date, category and type are copied through unchanged and left out.
Txn(id, description) == [id |-> id, description |-> description, amount |-> -180]

DescriptionPool == {WILSON_PARKING, NULL}

\* request bodies: every short list over the pool, the empty list, and lists
\* one longer than a slice (all well-formed, or the second without description)
RequestPool ==
    UNION {{[j \in 1..n |-> Txn(j, d[j])] : d \in [1..n -> DescriptionPool]} : n \in 0..MaxTxns}
    \cup {[j \in 1..(BATCH_SIZE + 1) |-> Txn(j, IF j = b THEN NULL ELSE WILSON_PARKING)] :
             b \in {0, 2}}

\* the text of a result entry pushed by processTaxBatch: the transaction's
\* fields, the source tag, then the spread of the classification
ResultEntry(tx, source, r) ==
    [id |-> tx.id, description |-> tx.description, amount |-> tx.amount,
     source |-> source, isTaxDeductible |-> r.isTaxDeductible,
     confidence |-> r.confidence, reasoning |-> r.reasoning,
     businessUsePercentage |-> r.businessUsePercentage, taxCategory |-> r.taxCategory]

checkTaxCache(transaction) == NULL

\* saveTaxCache stores nothing; it logs transaction.description.substring(0, 30),
\* a TypeError when the description is no string
saveTaxCacheThrows(transaction) == transaction.description = NULL

getDefaultTaxResult ==
    MakeResult(FALSE, 0, <<"Analysis failed - requires manual review">>, 0, Chars_Personal)

\* what the catch of callOpenAIBatch returns for each transaction
callOpenAIBatchDefault ==
    MakeResult(FALSE, 0, <<"AI analysis failed - requires manual review">>, 0, Chars_Personal)

\* the user prompt of callOpenAIBatch, one entry per line
\* `${index + 1}:${tx.description}|$${Math.abs(tx.amount)}|...`
BuildPrompt(txs) ==
    [j \in 1..Len(txs) |->
        [n |-> j, description |-> txs[j].description,
         amount |-> IF txs[j].amount < 0 THEN -txs[j].amount ELSE txs[j].amount]]

\* the external call placed inside the loop of phase 1
LookupsDone_InsideLoop(done, slice) == done >= 1

\* the for-of loop of phase 1 has gone through the slice
LookupsDone(done, slice) == done >= Len(slice)

\* aiResult && aiResult.confidence > 0.3
Qualifies(aiResult) == aiResult # NULL /\ aiResult.confidence > 30

(***************************************************************************)
(* Replies of the provider.  A reply is drawn per entry: a line            *)
(* `n: <payload>`, the index with a payload that is no field list, a line  *)
(* without index, or no line at all.                                       *)
(***************************************************************************)
PayGood == <<"d", ":", "1", "|", "c", ":", "0", ".", "8", "|", "r", ":", "o", "k",
             "|", "b", ":", "1", "0", "0">>
PayEdge == <<"d", ":", "1", "|", "c", ":", "0", ".", "3", "|", "b", ":", "5", "0">>
PayLow == <<"d", ":", "1", "|", "c", ":", "0", ".", "1", "|", "b", ":", "5", "0">>
PayOver == <<"D", ":", "1", "|", "c", ":", "1", ".", "7", "|", "b", ":", "1", "5", "0">>
PayUnder == <<"d", ":", "0", "|", "c", ":", "-", "0", ".", "2", "|", "b", ":", "-", "5">>
PayTime == <<"d", ":", "1", "|", "c", ":", "0", ".", "9", "|", "r", ":", "a", "t", " ",
             "1", "2", ":", "3", "0", "|", "b", ":", "5", "0">>
PayJunk == <<"j", "u", "n", "k">>
\* the same fields under the long keys of the older grammar
PayOldGood == <<"d", "e", "d", "u", "c", "t", "i", "b", "l", "e", ":", "t", "r", "u", "e", "|", "c", "o", "n", "f", "i", "d", "e", "n", "c", "e", ":", "0", ".", "8", "|", "r", "e", "a", "s", "o", "n", "i", "n", "g", ":", "o", "k", "|", "b", "u", "s", "i", "n", "e", "s", "s", "_", "u", "s", "e", ":", "1", "0", "0">>
PayOldTime == <<"d", "e", "d", "u", "c", "t", "i", "b", "l", "e", ":", "t", "r", "u", "e", "|", "c", "o", "n", "f", "i", "d", "e", "n", "c", "e", ":", "0", ".", "9", "|", "r", "e", "a", "s", "o", "n", "i", "n", "g", ":", "a", "t", " ", "1", "2", ":", "3", "0", "|", "b", "u", "s", "i", "n", "e", "s", "s", "_", "u", "s", "e", ":", "5", "0">>

WellFormed == {"good", "edge", "low", "over", "under", "time"}
Malformed == {"garbled", "noindex", "missing"}

Payload(o) ==
    CASE o = "good" -> PayGood
      [] o = "edge" -> PayEdge
      [] o = "low" -> PayLow
      [] o = "over" -> PayOver
      [] o = "under" -> PayUnder
      [] o = "time" -> PayTime
      [] o = "oldgood" -> PayOldGood
      [] o = "oldtime" -> PayOldTime
      [] OTHER -> PayJunk

\* the lines (each ended by a line break) of entry n under option o
EntryText(n, o) ==
    IF o = "missing" THEN <<>>
    ELSE IF o = "noindex" THEN PayJunk \o <<"\n">>
    ELSE NumToStr(n) \o <<":", " ">> \o Payload(o) \o <<"\n">>

RECURSIVE ReplyFrom(_, _)
ReplyFrom(opts, n) ==
    IF n > Len(opts) THEN <<>> ELSE EntryText(n, opts[n]) \o ReplyFrom(opts, n + 1)

ReplyText(opts) == ReplyFrom(opts, 1)

PipeOptions == {"good", "edge", "low", "time", "missing"}

\* replies drawn for a prompt of n entries: any mix for a short prompt, the
\* same option for every entry of a long one; an all-missing reply is blank
PipeReplyChoices(n) ==
    IF n > MaxTxns
    THEN {[j \in 1..n |-> o] : o \in PipeOptions \ {"missing"}}
    ELSE {o \in [1..n -> PipeOptions] : \E a \in 1..n : o[a] # "missing"}

PipeInit ==
    /\ served = 0
    /\ aiSeen = {}
    /\ pc = "idle"
    /\ transactions = <<>>
    /\ i = 0
    /\ results = <<>>
    /\ response = NULL
    /\ batch = <<>>
    /\ k = 0
    /\ batchResults = <<>>
    /\ transactionsNeedingAI = <<>>
    /\ aiResults = <<>>
    /\ m = 0
    /\ prompts = <<>>
    /\ callFailed = FALSE
    /\ replied = NULL
    /\ slices = <<>>
    /\ saveCalls = <<>>
    /\ saveThrew = {}
    /\ pauses = 0

\* descriptions the finished request resolved by AI with confidence 0.8
ResolvedByAI(rs) ==
    {rs[j].description : j \in {h \in 1..Len(rs) : rs[h].source = "ai" /\ rs[h].confidence = 80}}

\* the route up to its loop: 400 for anything but a non-empty array
ReceiveBatchRequest(txs) ==
    /\ pc \in {"idle", "responded"}
    /\ served < MaxRequests
    /\ served' = served + 1
    /\ aiSeen' = aiSeen \cup ResolvedByAI(results)
    /\ transactions' = txs
    /\ i' = 0
    /\ results' = <<>>
    /\ IF Len(txs) = 0
       THEN /\ response' = [status |-> 400, results |-> <<>>]
            /\ pc' = "responded"
       ELSE /\ response' = NULL
            /\ pc' = "loop"
    /\ batch' = <<>>
    /\ k' = 0
    /\ batchResults' = <<>>
    /\ transactionsNeedingAI' = <<>>
    /\ aiResults' = <<>>
    /\ m' = 0
    /\ prompts' = <<>>
    /\ callFailed' = FALSE
    /\ replied' = NULL
    /\ slices' = <<>>
    /\ saveCalls' = <<>>
    /\ saveThrew' = {}
    /\ pauses' = 0

\* a slice that takes one element past its end
slice_Overlapping(arr, start, end) == SubSeq(arr, start + 1, Min(end + 1, Len(arr)))

\* Array.prototype.slice for 0 <= start <= end: the elements at the 0-based
\* positions start .. end - 1 that exist
slice(arr, start, end) == SubSeq(arr, start + 1, Min(end, Len(arr)))

\* transactions.slice(i, i + BATCH_SIZE) and the entry of processTaxBatch
StartBatch ==
    /\ pc = "loop"
    /\ batch' = slice(transactions, i, i + BATCH_SIZE)
    /\ slices' = Append(slices, slice(transactions, i, i + BATCH_SIZE))
    /\ k' = 0
    /\ batchResults' = <<>>
    /\ transactionsNeedingAI' = <<>>
    /\ aiResults' = <<>>
    /\ m' = 0
    /\ callFailed' = FALSE
    /\ replied' = NULL
    /\ pc' = "phase1"
    /\ UNCHANGED <<served, aiSeen, transactions, i, results, response, prompts,
                   saveCalls, saveThrew, pauses>>

\* one iteration of phase 1; after the last one the function goes on, without
\* suspending, to the external call of phase 2 or, with nothing left, returns
CheckCache ==
    /\ pc = "phase1"
    /\ k < Len(batch)
    /\ LET transaction == batch[k + 1]
           cacheResult == checkTaxCache(transaction)
           hit == cacheResult # NULL
           needing == IF hit THEN transactionsNeedingAI
                      ELSE Append(transactionsNeedingAI, transaction)
       IN  /\ batchResults' = IF hit
                              THEN Append(batchResults,
                                          ResultEntry(transaction, "cache", cacheResult))
                              ELSE batchResults
           /\ transactionsNeedingAI' = needing
           /\ k' = k + 1
           /\ IF ~LookupsDone(k + 1, batch)
              THEN pc' = "phase1" /\ UNCHANGED prompts
              ELSE IF Len(needing) > 0
              THEN pc' = "call" /\ prompts' = Append(prompts, BuildPrompt(needing))
              ELSE pc' = "batchDone" /\ UNCHANGED prompts
    /\ UNCHANGED <<served, aiSeen, slices, replied, transactions, i, results, response, batch,
                   aiResults, m, callFailed, saveCalls, saveThrew, pauses>>

\* the provider answers with content: callOpenAIBatch decodes it
OpenAIReturns(opts) ==
    /\ pc = "call"
    /\ aiResults' = parseBatchTaxAnalysisResponseOptimized(ReplyText(opts),
                                                           transactionsNeedingAI)
    /\ replied' = [lines |-> opts]
    /\ m' = 0
    /\ pc' = "phase3"
    /\ UNCHANGED <<served, aiSeen, slices, transactions, i, results, response, batch, k,
                   batchResults, transactionsNeedingAI, prompts, callFailed,
                   saveCalls, saveThrew, pauses>>

\* the provider answers without content: 'No analysis received from AI' is
\* thrown and caught inside callOpenAIBatch
OpenAIReturnsNoContent ==
    /\ pc = "call"
    /\ aiResults' = [j \in 1..Len(transactionsNeedingAI) |-> callOpenAIBatchDefault]
    /\ callFailed' = TRUE
    /\ m' = 0
    /\ pc' = "phase3"
    /\ UNCHANGED <<served, aiSeen, slices, replied, transactions, i, results, response, batch, k,
                   batchResults, transactionsNeedingAI, prompts,
                   saveCalls, saveThrew, pauses>>

\* the call rejects (provider error, timeout): caught inside callOpenAIBatch
OpenAIThrows ==
    /\ pc = "call"
    /\ aiResults' = [j \in 1..Len(transactionsNeedingAI) |-> callOpenAIBatchDefault]
    /\ callFailed' = TRUE
    /\ m' = 0
    /\ pc' = "phase3"
    /\ UNCHANGED <<served, aiSeen, slices, replied, transactions, i, results, response, batch, k,
                   batchResults, transactionsNeedingAI, prompts,
                   saveCalls, saveThrew, pauses>>

\* one iteration of phase 3.  A throw of saveTaxCache lands in the catch of
\* processTaxBatch, which pushes a default entry for EVERY transaction that
\* needed AI and ends the function.
SaveAndPush ==
    /\ pc = "phase3"
    /\ m < Len(transactionsNeedingAI)
    /\ LET transaction == transactionsNeedingAI[m + 1]
           aiResult == aiResults[m + 1]
       IN  IF Qualifies(aiResult) /\ saveTaxCacheThrows(transaction)
           THEN /\ batchResults' = batchResults \o
                      [j \in 1..Len(transactionsNeedingAI) |->
                          ResultEntry(transactionsNeedingAI[j], "uncategorised",
                                      getDefaultTaxResult)]
                /\ saveThrew' = saveThrew \cup {transaction.id}
                /\ pc' = "batchDone"
                /\ UNCHANGED <<m, saveCalls>>
           ELSE /\ saveCalls' = IF Qualifies(aiResult)
                                THEN Append(saveCalls,
                                            [id |-> transaction.id,
                                             description |-> transaction.description,
                                             confidence |-> aiResult.confidence])
                                ELSE saveCalls
                /\ batchResults' = Append(batchResults,
                       ResultEntry(transaction,
                                   IF Qualifies(aiResult) THEN "ai" ELSE "uncategorised",
                                   aiResult))
                /\ m' = m + 1
                /\ pc' = IF m + 1 < Len(transactionsNeedingAI) THEN "phase3" ELSE "batchDone"
                /\ UNCHANGED saveThrew
    /\ UNCHANGED <<served, aiSeen, slices, replied, transactions, i, results, response, batch, k,
                   transactionsNeedingAI, aiResults, prompts, callFailed, pauses>>

\* a pause taken after every slice, the last one included
SliceLeft_AfterEach(offset, txs) == TRUE

\* if (i + BATCH_SIZE < transactions.length)
SliceLeft(offset, txs) == offset + BATCH_SIZE < Len(txs)

\* processTaxBatch returned: results.push(...batchResults), then the pacing
\* delay when a slice is left, else res.json({ success: true, results })
FinishBatch ==
    /\ pc = "batchDone"
    /\ results' = results \o batchResults
    /\ IF SliceLeft(i, transactions)
       THEN pc' = "pace" /\ UNCHANGED response
       ELSE /\ pc' = "responded"
            /\ response' = [status |-> 200, results |-> results \o batchResults]
    /\ UNCHANGED <<served, aiSeen, slices, replied, transactions, i, batch, k, batchResults,
                   transactionsNeedingAI, aiResults, m, prompts, callFailed,
                   saveCalls, saveThrew, pauses>>

\* the setTimeout of 1000 ms between slices has run out: i += BATCH_SIZE
PaceElapsed ==
    /\ pc = "pace"
    /\ pauses' = pauses + 1
    /\ i' = i + BATCH_SIZE
    /\ pc' = "loop"
    /\ UNCHANGED <<served, aiSeen, slices, replied, transactions, results, response, batch, k,
                   batchResults, transactionsNeedingAI, aiResults, m, prompts,
                   callFailed, saveCalls, saveThrew>>


(***************************************************************************)
(* The decoders applied to drawn replies                                   *)
(***************************************************************************)
MaxDecodeBatch == 3

DecodeWellFormed == {"good", "over", "under", "time"}

DecodeOptions == DecodeWellFormed \cup Malformed

\* replies of the key:value grammar, one field per line
KvLinePool ==
    {<<"d", "e", "d", "u", "c", "t", "i", "b", "l", "e", ":", " ", "t", "r", "u", "e", "\n">>,
     <<"c", "o", "n", "f", "i", "d", "e", "n", "c", "e", ":", " ", "1", ".", "7", "\n">>,
     <<"c", "o", "n", "f", "i", "d", "e", "n", "c", "e", ":", " ", "-", "0", ".", "2", "\n">>,
     <<"c", "o", "n", "f", "i", "d", "e", "n", "c", "e", ":", " ", "0", ".", "8", "\n">>,
     <<"c", "o", "n", "f", "i", "d", "e", "n", "c", "e", ":", " ", "0", "\n">>,
     <<"b", "u", "s", "i", "n", "e", "s", "s", "_", "u", "s", "e", ":", " ", "1", "5", "0", "\n">>,
     <<"b", "u", "s", "i", "n", "e", "s", "s", "_", "u", "s", "e", ":", " ", "-", "5", "\n">>,
     <<"j", "u", "n", "k", "\n">>}

KvReplyPool ==
    {<<>>} \cup KvLinePool \cup {a \o b : a \in KvLinePool, b \in KvLinePool}

\* what JSON.parse makes of a reply: confidence in hundredths
JsonReplyPool ==
    {[kind |-> x] : x \in {"empty", "invalid", "null"}}
    \cup [kind : {"object"}, isDeductible : BOOLEAN,
          confidence : {NULL, Num(0), Num(-20), Num(80), Num(170)},
          businessPercent : {NULL, Num(-5), Num(50), Num(150)}]

DecInit ==
    /\ dpc = "input"
    /\ dN = 0
    /\ dAnalysis = <<>>
    /\ dAnalysisB = <<>>
    /\ dEntry = NULL
    /\ dOut = <<>>
    /\ dOutB = <<>>

\* a reply for n transactions is decoded, and beside it the reply that
\* differs from it in the lines of entry e alone (option `other` for entry e)
DecodeBatch(n, opts, e, other) ==
    /\ dpc = "input"
    /\ opts[e] \in DecodeWellFormed
    /\ other \in Malformed
    /\ LET a == ReplyText(opts)
           b == ReplyText([opts EXCEPT ![e] = other])
           txs == [j \in 1..n |-> j]
       IN  /\ dAnalysis' = a
           /\ dAnalysisB' = b
           /\ dOut' = parseBatchTaxAnalysisResponseOptimized(a, txs)
           /\ dOutB' = parseBatchTaxAnalysisResponseOptimized(b, txs)
    /\ dN' = n
    /\ dEntry' = [entry |-> e, opts |-> opts, is |-> other]
    /\ dpc' = "batch"

DecodeKeyValue(reply) ==
    /\ dpc = "input"
    /\ dAnalysis' = reply
    /\ dOut' = <<parseTaxAnalysisResponse(reply)>>
    /\ dpc' = "kv"
    /\ UNCHANGED <<dN, dAnalysisB, dEntry, dOutB>>

DecodeJson(reply) ==
    /\ dpc = "input"
    /\ dAnalysis' = <<reply>>
    /\ dOut' = <<parseAITaxResponse(reply)>>
    /\ dpc' = "json"
    /\ UNCHANGED <<dN, dAnalysisB, dEntry, dOutB>>

\* a reply whose lines come in any order, with repeated, foreign or no indices
MaxReplyLines == 2
ReplyLinePool == [index : {1, 2, 12}, pay : {"good", "time"}]

RECURSIVE LinesText(_)
LinesText(ls) ==
    IF ls = <<>> THEN <<>>
    ELSE NumToStr(Head(ls).index) \o <<":", " ">> \o Payload(Head(ls).pay) \o <<"\n">>
             \o LinesText(Tail(ls))

ReplyLinesPool == UNION {[1..len -> ReplyLinePool] : len \in 0..MaxReplyLines}

DecodeLines(n, ls) ==
    /\ dpc = "input"
    /\ LET a == LinesText(ls)
           txs == [j \in 1..n |-> j]
       IN  /\ dAnalysis' = a
           /\ dOut' = parseBatchTaxAnalysisResponseOptimized(a, txs)
           /\ dOutB' = parseBatchTaxAnalysisResponseOptimized_005(a, txs)
    /\ dAnalysisB' = <<>>
    /\ dN' = n
    /\ dEntry' = [lines |-> ls]
    /\ dpc' = "lines"

\* a reply in the older grammar, decoded by the decoder of part_005 (dOut)
\* and by the decoder of part_004 (dOutB)
OlderOptions == {"oldgood", "oldtime", "missing"}

DecodeOlder(n, opts) ==
    /\ dpc = "input"
    /\ LET a == ReplyText(opts)
           txs == [j \in 1..n |-> j]
       IN  /\ dAnalysis' = a
           /\ dOut' = parseBatchTaxAnalysisResponseOptimized_005(a, txs)
           /\ dOutB' = parseBatchTaxAnalysisResponseOptimized(a, txs)
    /\ dAnalysisB' = <<>>
    /\ dN' = n
    /\ dEntry' = [opts |-> opts]
    /\ dpc' = "older"

\* the content of one found line: '|'-separated segments, at most one per
\* field
Seg_d1 == <<"d", ":", "1">>
Seg_c0 == <<"c", ":", "0">>
Seg_c08 == <<"c", ":", "0", ".", "8">>
Seg_chigh == <<"c", ":", "h", "i", "g", "h">>
Seg_b40 == <<"b", ":", "4", "0">>
Seg_ball == <<"b", ":", "a", "l", "l">>
Seg_rtime == <<"r", ":", "a", "t", " ", "1", "2", ":", "3", "0">>
Seg_x9 == <<"x", ":", "9">>
Seg_note == <<"n", "o", "t", "e">>

SegmentPool ==
    {Seg_d1, Seg_c0, Seg_c08, Seg_chigh, Seg_b40, Seg_ball, Seg_rtime, Seg_x9, Seg_note}

\* the key a segment is about
SegKey(seg) == seg[1]

SegmentLists ==
    {<<a>> : a \in SegmentPool}
    \cup {ab \in SegmentPool \X SegmentPool : SegKey(ab[1]) # SegKey(ab[2])}

JoinSegments(segs) ==
    IF Len(segs) = 1 THEN segs[1] ELSE segs[1] \o <<"|">> \o segs[2]

DecodeLine(segs) ==
    /\ dpc = "input"
    /\ dAnalysis' = JoinSegments(segs)
    /\ dOut' = <<parseOptimizedTaxLine(JoinSegments(segs))>>
    /\ dEntry' = [segs |-> segs]
    /\ dpc' = "line"
    /\ UNCHANGED <<dN, dAnalysisB, dOutB>>


(***************************************************************************)
(* router.post('/analyze-single').  referenceParser (ReferenceDataParser)  *)
(* and batchEngine (BatchProcessingEngine) are collaborators of the route: *)
(* classifyTransaction yields none or a result, processBatch a result      *)
(* list of the length of its input, or it throws.                          *)
(***************************************************************************)
MaxSingleRequests == 2

NotClassified == [unset |-> TRUE]

SingleRequestPool ==
    [description : {WILSON_PARKING, NULL}, amount : {-180, 0, 25}]

ReferenceResultPool ==
    {NULL} \cup [confidence : {50, 79, 80, 95}, isTaxDeductible : {TRUE},
                 businessUsePercentage : {100}]

EngineResultPool ==
    [confidence : {30, 90}, isTaxDeductible : BOOLEAN]

\* the acceptance test written with > in place of >=
ReferenceAccepted_Strict(referenceResult) ==
    referenceResult # NULL /\ referenceResult.confidence > 80

\* referenceResult && referenceResult.confidence >= 0.8
ReferenceAccepted(referenceResult) ==
    referenceResult # NULL /\ referenceResult.confidence >= 80

\* the batchTransaction built for the engine
SingleBatchTransaction(req) ==
    [description |-> req.description, amount |-> req.amount,
     type |-> IF req.amount > 0 THEN "credit" ELSE "debit"]

SingleInit ==
    /\ sServices \in BOOLEAN
    /\ spc = "idle"
    /\ sReq = NULL
    /\ sReference = NotClassified
    /\ sEngineCalls = <<>>
    /\ sResponse = NULL
    /\ sServed = 0

\* the handler up to its first await: 400 without description or amount
\* (an amount of 0 counts as missing), 500 without the services
ReceiveSingle(req) ==
    /\ spc \in {"idle", "responded"}
    /\ sServed < MaxSingleRequests
    /\ sServed' = sServed + 1
    /\ sReq' = req
    /\ sReference' = NotClassified
    /\ sEngineCalls' = <<>>
    /\ IF req.description = NULL \/ req.amount = 0
       THEN spc' = "responded" /\ sResponse' = [status |-> 400]
       ELSE IF ~sServices
       THEN spc' = "responded" /\ sResponse' = [status |-> 500]
       ELSE spc' = "classify" /\ sResponse' = NULL
    /\ UNCHANGED sServices

\* classifyTransaction resolved: answer from the reference data, or hand the
\* single transaction to the engine
ClassifyReturns(referenceResult) ==
    /\ spc = "classify"
    /\ sReference' = referenceResult
    /\ IF ReferenceAccepted(referenceResult)
       THEN /\ spc' = "responded"
            /\ sResponse' = [status |-> 200, result |-> referenceResult,
                             source |-> "reference_data", cost |-> 0]
            /\ UNCHANGED sEngineCalls
       ELSE /\ spc' = "engine"
            /\ sEngineCalls' = Append(sEngineCalls, <<SingleBatchTransaction(sReq)>>)
            /\ UNCHANGED sResponse
    /\ UNCHANGED <<sServices, sReq, sServed>>

EngineReturns(result, totalCost) ==
    /\ spc = "engine"
    /\ spc' = "responded"
    /\ sResponse' = [status |-> 200, result |-> result,
                     source |-> "ai_classification", cost |-> totalCost]
    /\ UNCHANGED <<sServices, sReq, sReference, sEngineCalls, sServed>>

EngineThrows ==
    /\ spc = "engine"
    /\ spc' = "responded"
    /\ sResponse' = [status |-> 500]
    /\ UNCHANGED <<sServices, sReq, sReference, sEngineCalls, sServed>>

(***************************************************************************)
(* APILogger (src/services/APILogger.ts) and the routes over it            *)
(***************************************************************************)
MaxLogCalls == 2
MaxClock == 2
MaxCleans == 1
MaxDays == 1

Str(x) == [str |-> x]
\* arguments of the logRequest calls: a call of a signed-in user and an
\* anonymous call of another service
LogCallPool ==
    {[service |-> Str("OpenAIService"), method |-> Str("analyzeTransaction"), userId |-> Str("user-1")],
     [service |-> Str("TaxService"), method |-> Str("analyzeTax"), userId |-> NULL]}

\* the three objects the class writes; a key that JSON.stringify leaves out
\* reads back as undefined
RequestEntry(requestId, service, method, userId) ==
    [timestamp |-> lNow, requestId |-> requestId, service |-> service,
     method |-> method, metadata |-> [userId |-> userId],
     response |-> NULL, error |-> NULL]

ResponseEntry(requestId) ==
    [timestamp |-> lNow, requestId |-> requestId, service |-> NULL,
     method |-> NULL, metadata |-> NULL,
     response |-> [success |-> TRUE], error |-> NULL]

ErrorEntry(requestId) ==
    [timestamp |-> lNow, requestId |-> requestId, service |-> NULL,
     method |-> NULL, metadata |-> NULL,
     response |-> [success |-> FALSE], error |-> [code |-> "unknown"]]

\* fs.appendFileSync(this.logFile, JSON.stringify(logEntry) + '\n')
writeToLog(file, newline, logEntry) ==
    IF newline \/ file = <<>>
    THEN Append(file, <<logEntry>>)
    ELSE [file EXCEPT ![Len(file)] = Append(@, logEntry)]

\* split('\n'), JSON.parse per line, lines that do not parse dropped
RECURSIVE readAllLogs(_)
readAllLogs(file) ==
    IF file = <<>> THEN <<>>
    ELSE LET rest == readAllLogs(Tail(file))
         IN  IF Len(Head(file)) = 1 THEN <<Head(file)[1]>> \o rest ELSE rest

\* log.response?.success
SuccessOf(log) == IF log.response = NULL THEN NULL ELSE [b |-> log.response.success]

\* criteria naming at most one of service, method, userId, with or without success
CriteriaPool ==
    {c \in [service : {NULL, Str("OpenAIService")}, method : {NULL, Str("analyzeTax")},
             userId : {NULL, Str("user-1")}, success : {NULL, [b |-> TRUE], [b |-> FALSE]}] :
        Cardinality({f \in {"service", "method", "userId"} : c[f] # NULL}) <= 1}

\* the filter callback of searchLogs: "throw", TRUE or FALSE
searchFilter(criteria, log) ==
    IF criteria.service # NULL /\ log.service # criteria.service THEN "false"
    ELSE IF criteria.method # NULL /\ log.method # criteria.method THEN "false"
    ELSE IF criteria.userId # NULL /\ log.metadata = NULL THEN "throw"
    ELSE IF criteria.userId # NULL /\ log.metadata.userId # criteria.userId THEN "false"
    ELSE IF criteria.success # NULL /\ SuccessOf(log) # criteria.success THEN "false"
    ELSE "true"

Threw == [threw |-> TRUE]

searchLogs(file, criteria) ==
    LET logs == readAllLogs(file)
        keep(log) == searchFilter(criteria, log) = "true"
    IN  IF \E j \in 1..Len(logs) : searchFilter(criteria, logs[j]) = "throw"
        THEN Threw
        ELSE [threw |-> FALSE, logs |-> SelectSeq(logs, keep)]

\* days covered by a timeRange
RangeDays(timeRange) == IF timeRange = "day" THEN 1 ELSE 7

\* logs.filter(log => new Date(log.timestamp) > cutoffTime)
readLogs(file, timeRange) ==
    LET newer(log) == log.timestamp > lNow - RangeDays(timeRange)
    IN  SelectSeq(readAllLogs(file), newer)

CountWhere(logs, P(_)) == Cardinality({j \in 1..Len(logs) : P(logs[j])})

Succeeded(l) == l.response # NULL /\ l.response.success
HasError(l) == l.error # NULL

generatePerformanceReport(file, timeRange) ==
    LET logs == readLogs(file, timeRange)
    IN  IF \E j \in 1..Len(logs) : logs[j].metadata = NULL
        THEN Threw
        ELSE [threw |-> FALSE,
              totalRequests |-> Len(logs),
              successfulRequests |-> CountWhere(logs, Succeeded),
              failedRequests |-> CountWhere(logs, HasError)]

\* LogViewer.generateAnalytics; successRate as the pair numerator / denominator
generateAnalytics(file, timeRange) ==
    LET all == searchLogs(file, [service |-> NULL, method |-> NULL,
                                 userId |-> NULL, success |-> NULL]).logs
        newer(log) == log.timestamp > lNow - RangeDays(timeRange)
        filteredLogs == SelectSeq(all, newer)
    IN  IF \E j \in 1..Len(filteredLogs) : filteredLogs[j].metadata = NULL
        THEN Threw
        ELSE [threw |-> FALSE,
              totalRequests |-> Len(filteredLogs),
              successRate |-> [num |-> CountWhere(filteredLogs, Succeeded),
                               den |-> Len(filteredLogs)]]

\* new Date(log.timestamp) > cutoffDate
NewerThan(log, cutoffDate) == log.timestamp > cutoffDate

\* the file cleanOldLogs writes: the kept entries joined by '\n'
cleanOldLogs(file, daysToKeep) ==
    LET cutoffDate == lNow - daysToKeep
        keep(log) == NewerThan(log, cutoffDate)
        filteredLogs == SelectSeq(readAllLogs(file), keep)
    IN  [j \in 1..Len(filteredLogs) |-> <<filteredLogs[j]>>]

LogInit ==
    /\ lLog = <<>>
    /\ lNewline = TRUE
    /\ lNow = 0
    /\ lCalls = <<>>
    /\ lCleans = 0
    /\ lKept = <<>>
    /\ lOut = NULL

\* logRequest: builds the entry and appends it
LogRequestStep(service, method, userId) ==
    /\ LET requestId == Len(lCalls) + 1
       IN  /\ lLog' = writeToLog(lLog, lNewline, RequestEntry(requestId, service, method, userId))
           /\ lCalls' = Append(lCalls, [service |-> service, method |-> method,
                                        userId |-> userId, outcome |-> "pending"])
    /\ lNewline' = TRUE
    /\ lOut' = NULL
    /\ UNCHANGED <<lNow, lCleans, lKept>>

LogRequest(service, method, userId) ==
    /\ Len(lCalls) < MaxLogCalls
    /\ LogRequestStep(service, method, userId)

LogResponse(requestId) ==
    /\ requestId \in 1..Len(lCalls)
    /\ lCalls[requestId].outcome = "pending"
    /\ lLog' = writeToLog(lLog, lNewline, ResponseEntry(requestId))
    /\ lCalls' = [lCalls EXCEPT ![requestId].outcome = "response"]
    /\ lNewline' = TRUE
    /\ lOut' = NULL
    /\ UNCHANGED <<lNow, lCleans, lKept>>

LogError(requestId) ==
    /\ requestId \in 1..Len(lCalls)
    /\ lCalls[requestId].outcome = "pending"
    /\ lLog' = writeToLog(lLog, lNewline, ErrorEntry(requestId))
    /\ lCalls' = [lCalls EXCEPT ![requestId].outcome = "error"]
    /\ lNewline' = TRUE
    /\ lOut' = NULL
    /\ UNCHANGED <<lNow, lCleans, lKept>>

SearchLogs(criteria) ==
    /\ lOut' = [op |-> "search", criteria |-> criteria, result |-> searchLogs(lLog, criteria)]
    /\ UNCHANGED <<lLog, lNewline, lNow, lCalls, lCleans, lKept>>

GeneratePerformanceReport(timeRange) ==
    /\ lOut' = [op |-> "report", timeRange |-> timeRange,
                result |-> generatePerformanceReport(lLog, timeRange)]
    /\ UNCHANGED <<lLog, lNewline, lNow, lCalls, lCleans, lKept>>

GenerateAnalytics(timeRange) ==
    /\ lOut' = [op |-> "analytics", timeRange |-> timeRange,
                result |-> generateAnalytics(lLog, timeRange)]
    /\ UNCHANGED <<lLog, lNewline, lNow, lCalls, lCleans, lKept>>

\* router.post('/clean'): count, clean, count again
CleanRoute(days) ==
    /\ lCleans < MaxCleans
    /\ lCleans' = lCleans + 1
    /\ LET before == readAllLogs(lLog)
           file == cleanOldLogs(lLog, days)
           beforeCount == Len(before)
           afterCount == Len(readAllLogs(file))
           newer(log) == log.timestamp > lNow - days
       IN  /\ lLog' = file
           /\ lKept' = SelectSeq(before, newer)
           /\ lOut' = [op |-> "clean", days |-> days, before |-> before,
                       beforeCount |-> beforeCount, afterCount |-> afterCount,
                       removedCount |-> beforeCount - afterCount]
    /\ lNewline' = (lLog' = <<>>)
    /\ UNCHANGED <<lNow, lCalls>>

\* router.get('/live'): searchLogs({}) and logs.slice(0, 10)
MaxLiveCalls == 6
LIVE_ENTRIES == 10

NoCriteria == [service |-> NULL, method |-> NULL, userId |-> NULL, success |-> NULL]

LiveRoute ==
    /\ LET logs == searchLogs(lLog, NoCriteria).logs
       IN  lOut' = [op |-> "live", logs |-> slice(logs, 0, LIVE_ENTRIES), total |-> Len(logs)]
    /\ UNCHANGED <<lLog, lNewline, lNow, lCalls, lCleans, lKept>>

\* a caller that logs one API call after the other
LiveLogRequest ==
    /\ Len(lCalls) < MaxLiveCalls
    /\ \A r \in 1..Len(lCalls) : lCalls[r].outcome # "pending"
    /\ LogRequestStep(Str("OpenAIService"), Str("analyzeTransaction"), Str("user-1"))

\* a day passes
Tick ==
    /\ lNow < MaxClock
    /\ lNow' = lNow + 1
    /\ lOut' = NULL
    /\ UNCHANGED <<lLog, lNewline, lCalls, lCleans, lKept>>

(***************************************************************************)
(* Concurrent invocations of router.post('/batch-analyze').  Each          *)
(* invocation has its own transactions, i and results (locals of the async *)
(* handler); the module keeps no mutable state between invocations.  An    *)
(* invocation is suspended at the external call inside processTaxBatch and *)
(* at the pacing delay, where invocations interleave.                      *)
(***************************************************************************)
MaxConcurrent == 2

Invocations == 1..MaxConcurrent

\* the request bodies of invocation r; ids are distinct across invocations
ConcRequestPool(r) ==
    {[j \in 1..n |-> Txn(100 * r + j, WILSON_PARKING)] : n \in {0, 1, BATCH_SIZE + 1}}
    \cup {<<Txn(100 * r + 1, NULL)>>}

ConcReplies == {"good", "low"}

\* phase 3 of processTaxBatch from entry m on, pushing onto acc
RECURSIVE PushResults(_, _, _, _)
PushResults(needing, ai, done, acc) ==
    IF done >= Len(needing) THEN acc
    ELSE IF Qualifies(ai[done + 1]) /\ saveTaxCacheThrows(needing[done + 1])
    THEN acc \o [j \in 1..Len(needing) |->
                    ResultEntry(needing[j], "uncategorised", getDefaultTaxResult)]
    ELSE PushResults(needing, ai, done + 1,
             Append(acc, ResultEntry(needing[done + 1],
                                     IF Qualifies(ai[done + 1]) THEN "ai" ELSE "uncategorised",
                                     ai[done + 1])))

\* what processTaxBatch returns for a slice once callOpenAIBatch returned ai
processTaxBatch(txs, ai) ==
    LET needing == SelectSeq(txs, LAMBDA t : checkTaxCache(t) = NULL)
        cached == SelectSeq(txs, LAMBDA t : checkTaxCache(t) # NULL)
    IN  [j \in 1..Len(cached) |-> ResultEntry(cached[j], "cache", checkTaxCache(cached[j]))]
        \o PushResults(needing, ai, 0, <<>>)

\* what callOpenAIBatch returns: the decoded reply, or its defaults
callOpenAIBatch(txs, outcome) ==
    IF outcome = "fail"
    THEN [j \in 1..Len(txs) |-> callOpenAIBatchDefault]
    ELSE parseBatchTaxAnalysisResponseOptimized(
             ReplyText([j \in 1..Len(txs) |-> outcome]), txs)

IdleHandler == [pc |-> "idle", transactions |-> <<>>, i |-> 0, results |-> <<>>,
                calls |-> 0, status |-> 0]

ConcInit ==
    /\ cHandlers = [r \in Invocations |-> IdleHandler]
    /\ cFlight = {}

\* the next slice is started without waiting for the call of the current one
MayDispatch_NoAwait(h) == h.pc \in {"loop", "call"}

\* the loop body is entered: the previous `await processTaxBatch` and the
\* pacing delay have resolved
MayDispatch(h) == h.pc = "loop"

ConcReceive(r, txs) ==
    /\ cHandlers[r].pc = "idle"
    /\ cHandlers' = [cHandlers EXCEPT ![r] =
           [pc |-> IF Len(txs) = 0 THEN "responded" ELSE "loop",
            transactions |-> txs, i |-> 0, results |-> <<>>, calls |-> 0,
            status |-> IF Len(txs) = 0 THEN 400 ELSE 0]]
    /\ UNCHANGED cFlight

\* slice, phase 1 (no cache entry exists) and the call of callOpenAIBatch
ConcDispatch(r) ==
    LET h == cHandlers[r]
    IN  /\ MayDispatch(h)
        /\ cFlight' = cFlight \cup {[req |-> r, offset |-> h.i, call |-> h.calls + 1]}
        /\ cHandlers' = [cHandlers EXCEPT ![r].pc = "call", ![r].calls = h.calls + 1]

\* the external call settles: phase 3, results.push(...batchResults), then
\* the pacing delay or the response
ConcSettle(r, c, outcome) ==
    LET h == cHandlers[r]
        batchOf == slice(h.transactions, c.offset, c.offset + BATCH_SIZE)
        pushed == h.results \o processTaxBatch(batchOf, callOpenAIBatch(batchOf, outcome))
    IN  /\ h.pc = "call"
        /\ c \in cFlight
        /\ c.req = r
        /\ cFlight' = cFlight \ {c}
        /\ cHandlers' = [cHandlers EXCEPT
               ![r].results = pushed,
               ![r].pc = IF SliceLeft(h.i, h.transactions) THEN "pace" ELSE "responded",
               ![r].status = IF SliceLeft(h.i, h.transactions) THEN 0 ELSE 200]

ConcPaceElapsed(r) ==
    /\ cHandlers[r].pc = "pace"
    /\ cHandlers' = [cHandlers EXCEPT ![r].pc = "loop", ![r].i = cHandlers[r].i + BATCH_SIZE]
    /\ UNCHANGED cFlight

(***************************************************************************)
(* The logs router: router.use(requireAdminAuth) in front of the handlers  *)
(* stats, recent, api-requests, cleanup and files.  A header or the        *)
(* environment variable that is not set is NULL.                           *)
(***************************************************************************)
Chars_Bearer == <<"B", "e", "a", "r", "e", "r", " ">>
Chars_abc == <<"a", "b", "c">>
Chars_abd == <<"a", "b", "d">>

\* String.prototype.replace(pattern, '') with a string pattern: the first
\* occurrence is removed, wherever it is
removeFirst(s, pattern) ==
    IF includes(s, pattern)
    THEN LET at == CHOOSE j \in 0..(Len(s) - Len(pattern)) :
                       /\ SubSeq(s, j + 1, j + Len(pattern)) = pattern
                       /\ \A h \in 0..(j - 1) : SubSeq(s, h + 1, h + Len(pattern)) # pattern
         IN  SubSeq(s, 1, at) \o SubSeq(s, at + Len(pattern) + 1, Len(s))
    ELSE s

\* a value JavaScript takes for false: undefined or the empty string
Falsy(v) == v = NULL \/ v = Str(<<>>)

\* req.headers['x-admin-token'] || req.headers['authorization']?.replace('Bearer ', '')
providedToken(req) ==
    IF ~Falsy(req.xAdminToken) THEN req.xAdminToken
    ELSE IF req.authorization = NULL THEN NULL
    ELSE Str(removeFirst(req.authorization.str, Chars_Bearer))

LogsRoutes == {"stats", "recent", "api-requests", "cleanup", "files"}

AdminTokenPool == {NULL, Str(<<>>), Str(Chars_abc)}

XAdminTokenPool == {NULL, Str(<<>>), Str(Chars_abc), Str(Chars_abd)}

AuthorizationPool ==
    {NULL, Str(Chars_Bearer \o Chars_abc), Str(Chars_Bearer \o Chars_abd),
     Str(Chars_abc), Str(<<"a">> \o Chars_Bearer \o <<"b", "c">>), Str(Chars_Bearer),
     Str(<<"b", "e", "a", "r", "e", "r", " ">> \o Chars_abc)}

GateRequestPool == [route : LogsRoutes, xAdminToken : XAdminTokenPool,
                    authorization : AuthorizationPool]

GateInit ==
    /\ gpc = "idle"
    /\ gReq = NULL
    /\ gStatus = 0
    /\ gReached = "none"

\* !providedToken || providedToken !== adminToken
TokenRejected(provided, adminToken) == Falsy(provided) \/ provided # adminToken

\* a request arrives at the router and runs through the middleware
RequireAdminAuth(req) ==
    /\ gpc \in {"idle", "responded"}
    /\ gReq' = req
    /\ gReached' = "none"
    /\ IF Falsy(gToken)
       THEN gpc' = "next" /\ gStatus' = 0
       ELSE IF TokenRejected(providedToken(req), gToken)
       THEN gpc' = "responded" /\ gStatus' = 401
       ELSE gpc' = "next" /\ gStatus' = 0
    /\ UNCHANGED gToken

\* next(): the handler of the route runs and answers
LogsHandler ==
    /\ gpc = "next"
    /\ gReached' = gReq.route
    /\ gStatus' = 200
    /\ gpc' = "responded"
    /\ UNCHANGED <<gToken, gReq>>

(***************************************************************************)
(* LoggingService: queueLog, processLogQueue and writeLog.  The public     *)
(* logging methods build an entry and call queueLog; processLogQueue runs  *)
(* without suspending up to its first await, and is resumed when the       *)
(* appends of writeLog have settled.                                       *)
(***************************************************************************)
MaxQueued == 4

\* an entry: its position among the queued ones, and whether JSON.stringify
\* can serialize its data (a circular structure or a BigInt cannot)
QueuedEntry(id, serializable) == [id |-> id, serializable |-> serializable]

QueueInit ==
    /\ logQueue = <<>>
    /\ isProcessing = FALSE
    /\ qDrains = <<>>
    /\ qTimers = 0
    /\ qCombined = <<>>
    /\ qQueued = <<>>
    /\ qFailed = {}
    /\ qRejected = {}

\* a guard that looks at the queue only
Returns_IgnoringFlag(processing, queue) == queue = <<>>

\* if (this.isProcessing || this.logQueue.length === 0) return;
Returns(processing, queue) == processing \/ queue = <<>>

\* queueLog: push, then processLogQueue up to its first await
QueueLog(serializable) ==
    /\ Len(qQueued) < MaxQueued
    /\ LET entry == QueuedEntry(Len(qQueued) + 1, serializable)
           pushed == Append(logQueue, entry)
       IN  /\ qQueued' = Append(qQueued, entry)
           /\ IF Returns(isProcessing, pushed)
              THEN logQueue' = pushed /\ UNCHANGED <<isProcessing, qDrains>>
              ELSE /\ isProcessing' = TRUE
                   /\ qDrains' = Append(qDrains, pushed)
                   /\ logQueue' = <<>>
    /\ UNCHANGED <<qTimers, qCombined, qFailed, qRejected>>

\* the timer callback: processLogQueue up to its first await
TimerFires ==
    /\ qTimers > 0
    /\ qTimers' = qTimers - 1
    /\ IF Returns(isProcessing, logQueue)
       THEN UNCHANGED <<logQueue, isProcessing, qDrains>>
       ELSE /\ isProcessing' = TRUE
            /\ qDrains' = Append(qDrains, logQueue)
            /\ logQueue' = <<>>
    /\ UNCHANGED <<qCombined, qQueued, qFailed, qRejected>>

RemoveAt(seq, at) == SubSeq(seq, 1, at - 1) \o SubSeq(seq, at + 1, Len(seq))

\* `await this.writeLog(entry)` of drain d settles.  JSON.stringify stands
\* before the try of writeLog: when it throws, writeLog rejects, the await
\* throws inside processLogQueue and the call ends there, its remaining
\* entries and `this.isProcessing = false` never reached.  A rejected
\* appendFile is caught inside writeLog and the loop goes on.
WriteLogSettles(d, appended) ==
    /\ d \in 1..Len(qDrains)
    /\ LET entries == qDrains[d]
           entry == Head(entries)
       IN  IF ~entry.serializable
           THEN /\ qRejected' = qRejected \cup {entry.id}
                /\ qDrains' = RemoveAt(qDrains, d)
                /\ UNCHANGED <<isProcessing, qTimers, qCombined, qFailed>>
           ELSE /\ qCombined' = IF appended THEN Append(qCombined, entry) ELSE qCombined
                /\ qFailed' = IF appended THEN qFailed ELSE qFailed \cup {entry.id}
                /\ UNCHANGED qRejected
                /\ IF Len(entries) > 1
                   THEN /\ qDrains' = [qDrains EXCEPT ![d] = Tail(entries)]
                        /\ UNCHANGED <<isProcessing, qTimers>>
                   ELSE /\ qDrains' = RemoveAt(qDrains, d)
                        /\ isProcessing' = FALSE
                        /\ qTimers' = IF Len(logQueue) > 0 THEN qTimers + 1 ELSE qTimers
    /\ UNCHANGED <<logQueue, qQueued>>

(***************************************************************************)
(* Specifications                                                          *)
(***************************************************************************)
DecIdle == DecInit
ConcIdle == ConcInit
GateIdle == GateInit /\ gToken = NULL
QueueIdle == QueueInit
ExtraIdle == ConcIdle /\ GateIdle /\ QueueIdle
LogIdle == LogInit
SingleIdle == SingleInit /\ sServices = TRUE

Init == PipeInit /\ DecIdle /\ SingleIdle /\ LogIdle /\ ExtraIdle

Next ==
    \/ \E txs \in RequestPool : ReceiveBatchRequest(txs) /\ UNCHANGED <<decVars, singleVars, logVars, extraVars>>
    \/ StartBatch /\ UNCHANGED <<decVars, singleVars, logVars, extraVars>>
    \/ CheckCache /\ UNCHANGED <<decVars, singleVars, logVars, extraVars>>
    \/ \E opts \in PipeReplyChoices(Len(transactionsNeedingAI)) :
           OpenAIReturns(opts) /\ UNCHANGED <<decVars, singleVars, logVars, extraVars>>
    \/ OpenAIReturnsNoContent /\ UNCHANGED <<decVars, singleVars, logVars, extraVars>>
    \/ OpenAIThrows /\ UNCHANGED <<decVars, singleVars, logVars, extraVars>>
    \/ SaveAndPush /\ UNCHANGED <<decVars, singleVars, logVars, extraVars>>
    \/ FinishBatch /\ UNCHANGED <<decVars, singleVars, logVars, extraVars>>
    \/ PaceElapsed /\ UNCHANGED <<decVars, singleVars, logVars, extraVars>>

Spec == Init /\ [][Next]_vars

\* the steps the route takes by itself; the answer of the external service
\* is not among them: openai.chat.completions.create is awaited with no
\* timeout, signal or race around it
ProgramStep ==
    (StartBatch \/ CheckCache \/ SaveAndPush \/ FinishBatch \/ PaceElapsed)
        /\ UNCHANGED <<decVars, singleVars, logVars, extraVars>>

SpecLive == Init /\ [][Next]_vars /\ WF_vars(ProgramStep)

InitDecode == PipeInit /\ DecInit /\ SingleIdle /\ LogIdle /\ ExtraIdle

NextDecode ==
    \/ dpc = "input" /\ \E n \in 1..MaxDecodeBatch : \E opts \in [1..n -> DecodeOptions] :
       \E e \in 1..n : \E other \in DecodeOptions :
           DecodeBatch(n, opts, e, other) /\ UNCHANGED <<pipeVars, singleVars, logVars, extraVars>>
    \/ dpc = "input" /\ \E reply \in KvReplyPool : DecodeKeyValue(reply) /\ UNCHANGED <<pipeVars, singleVars, logVars, extraVars>>
    \/ dpc = "input" /\ \E reply \in JsonReplyPool : DecodeJson(reply) /\ UNCHANGED <<pipeVars, singleVars, logVars, extraVars>>
    \/ dpc = "input" /\ \E n \in 1..MaxDecodeBatch : \E ls \in ReplyLinesPool :
           DecodeLines(n, ls) /\ UNCHANGED <<pipeVars, singleVars, logVars, extraVars>>
    \/ dpc = "input" /\ \E n \in 1..MaxDecodeBatch : \E opts \in [1..n -> OlderOptions] :
           DecodeOlder(n, opts) /\ UNCHANGED <<pipeVars, singleVars, logVars, extraVars>>
    \/ dpc = "input" /\ \E segs \in SegmentLists : DecodeLine(segs) /\ UNCHANGED <<pipeVars, singleVars, logVars, extraVars>>

SpecDecode == InitDecode /\ [][NextDecode]_vars

InitSingle == PipeInit /\ DecIdle /\ SingleInit /\ LogIdle /\ ExtraIdle

NextSingle ==
    \/ \E req \in SingleRequestPool : ReceiveSingle(req) /\ UNCHANGED <<pipeVars, decVars, logVars, extraVars>>
    \/ \E ref \in ReferenceResultPool : ClassifyReturns(ref) /\ UNCHANGED <<pipeVars, decVars, logVars, extraVars>>
    \/ \E r \in EngineResultPool : \E cost \in {0, 25} :
           EngineReturns(r, cost) /\ UNCHANGED <<pipeVars, decVars, logVars, extraVars>>
    \/ EngineThrows /\ UNCHANGED <<pipeVars, decVars, logVars, extraVars>>

SpecSingle == InitSingle /\ [][NextSingle]_vars

InitLog == PipeInit /\ DecIdle /\ SingleIdle /\ LogInit /\ ExtraIdle

NextLog ==
    \/ \E c \in LogCallPool :
           LogRequest(c.service, c.method, c.userId) /\ UNCHANGED <<pipeVars, decVars, singleVars, extraVars>>
    \/ \E r \in 1..MaxLogCalls : LogResponse(r) /\ UNCHANGED <<pipeVars, decVars, singleVars, extraVars>>
    \/ \E r \in 1..MaxLogCalls : LogError(r) /\ UNCHANGED <<pipeVars, decVars, singleVars, extraVars>>
    \/ \E criteria \in CriteriaPool :
           SearchLogs(criteria) /\ UNCHANGED <<pipeVars, decVars, singleVars, extraVars>>
    \/ \E timeRange \in {"day", "week"} :
           GeneratePerformanceReport(timeRange) /\ UNCHANGED <<pipeVars, decVars, singleVars, extraVars>>
    \/ \E timeRange \in {"day", "week"} :
           GenerateAnalytics(timeRange) /\ UNCHANGED <<pipeVars, decVars, singleVars, extraVars>>
    \/ \E days \in 0..MaxDays : CleanRoute(days) /\ UNCHANGED <<pipeVars, decVars, singleVars, extraVars>>
    \/ Tick /\ UNCHANGED <<pipeVars, decVars, singleVars, extraVars>>

SpecLog == InitLog /\ [][NextLog]_vars

InitConcurrent == PipeInit /\ DecIdle /\ SingleIdle /\ LogIdle /\ ConcInit /\ GateIdle /\ QueueIdle

NextConcurrent ==
    \/ \E r \in Invocations : \E txs \in ConcRequestPool(r) :
           ConcReceive(r, txs) /\ UNCHANGED <<baseVars, gateVars, queueVars>>
    \/ \E r \in Invocations : ConcDispatch(r) /\ UNCHANGED <<baseVars, gateVars, queueVars>>
    \/ \E r \in Invocations : \E c \in cFlight : \E outcome \in ConcReplies \cup {"fail"} :
           ConcSettle(r, c, outcome) /\ UNCHANGED <<baseVars, gateVars, queueVars>>
    \/ \E r \in Invocations : ConcPaceElapsed(r) /\ UNCHANGED <<baseVars, gateVars, queueVars>>

SpecConcurrent == InitConcurrent /\ [][NextConcurrent]_vars

InitLive == InitLog

InitGate == PipeInit /\ DecIdle /\ SingleIdle /\ LogIdle /\ ConcIdle /\ QueueIdle /\ GateInit /\ gToken \in AdminTokenPool

NextGate ==
    \/ \E req \in GateRequestPool : RequireAdminAuth(req) /\ UNCHANGED <<baseVars, concVars, queueVars>>
    \/ LogsHandler /\ UNCHANGED <<baseVars, concVars, queueVars>>

SpecGate == InitGate /\ [][NextGate]_vars

InitQueue == PipeInit /\ DecIdle /\ SingleIdle /\ LogIdle /\ ConcIdle /\ GateIdle /\ QueueInit

NextQueue ==
    \/ \E serializable \in BOOLEAN : QueueLog(serializable) /\ UNCHANGED <<baseVars, concVars, gateVars>>
    \/ TimerFires /\ UNCHANGED <<baseVars, concVars, gateVars>>
    \/ \E d \in 1..Len(qDrains) : \E appended \in BOOLEAN :
           WriteLogSettles(d, appended) /\ UNCHANGED <<baseVars, concVars, gateVars>>

SpecQueue == InitQueue /\ [][NextQueue]_vars

\* the event loop runs every settled await and every expired timer
EventLoopStep ==
    \/ TimerFires /\ UNCHANGED <<baseVars, concVars, gateVars>>
    \/ \E d \in 1..Len(qDrains) : \E appended \in BOOLEAN :
           WriteLogSettles(d, appended) /\ UNCHANGED <<baseVars, concVars, gateVars>>

SpecQueueLive == InitQueue /\ [][NextQueue]_vars /\ WF_vars(EventLoopStep)


NextLive ==
    \/ LiveLogRequest /\ UNCHANGED <<pipeVars, decVars, singleVars, extraVars>>
    \/ \E r \in 1..Len(lCalls) : LogResponse(r) /\ UNCHANGED <<pipeVars, decVars, singleVars, extraVars>>
    \/ \E r \in 1..Len(lCalls) : LogError(r) /\ UNCHANGED <<pipeVars, decVars, singleVars, extraVars>>
    \/ LiveRoute /\ UNCHANGED <<pipeVars, decVars, singleVars, extraVars>>

SpecLiveRoute == InitLive /\ [][NextLive]_vars


(***************************************************************************)
(* Properties                                                              *)
(***************************************************************************)
\* ids of the entries of a result list
CountOf(rs, id) == Cardinality({j \in 1..Len(rs) : rs[j].id = id})

Answered == pc = "responded" /\ Len(transactions) > 0

\* C1: a batch request of N transactions is answered with exactly N results,
\* one per input transaction, none twice and none missing, whatever happened
\* to single entries (unparsable lines, a failed call, a failed cache save).
C1_ExactlyNResults ==
    Answered =>
        /\ response.status = 200
        /\ Len(response.results) = Len(transactions)
        /\ \A t \in 1..Len(transactions) :
               CountOf(response.results, transactions[t].id) = 1

\* C2: the result list has the order of the input list: result number j
\* belongs to input transaction number j.
C2_InputOrder ==
    Answered =>
        \A j \in 1..Len(transactions) :
            /\ j <= Len(response.results)
            /\ response.results[j].id = transactions[j].id

\* C3: when the external call of a slice failed, every transaction of the
\* slice gets the fallback result: tagged uncategorised, confidence 0.3,
\* not deductible; and processTaxBatch returns.
C3_TransportFailureFallback ==
    (pc = "batchDone" /\ callFailed) =>
        /\ Len(batchResults) = Len(batch)
        /\ \A j \in 1..Len(batchResults) :
               /\ batchResults[j].source = "uncategorised"
               /\ batchResults[j].confidence = 30
               /\ ~batchResults[j].isTaxDeductible

\* C4: per-entry isolation of decoding.  Of two replies that differ only in
\* the line of entry e (well-formed in the first; in the second missing or
\* without its index), all other entries being well-formed, every other
\* entry decodes to the same result in both, and entry e decodes to the
\* fallback result in the second.
C4_PerEntryIsolation ==
    (/\ dpc = "batch"
     /\ dEntry.is \in {"missing", "noindex"}
     /\ \A j \in 1..dN : j # dEntry.entry => dEntry.opts[j] \in DecodeWellFormed)
    => /\ \A j \in 1..dN : j # dEntry.entry => dOut[j] = dOutB[j]
       /\ dOutB[dEntry.entry] = getDefaultSingleResult

\* C5: every result of every decode path (compact batch line, key:value
\* reply, JSON reply) has its confidence in [0, 1] and its business use in
\* [0, 100].
InRange(r) ==
    /\ 0 <= r.confidence /\ r.confidence <= 100
    /\ 0 <= r.businessUsePercentage /\ r.businessUsePercentage <= 100

C5_ClampedRanges ==
    dpc # "input" =>
        /\ \A j \in 1..Len(dOut) : InRange(dOut[j])
        /\ \A j \in 1..Len(dOutB) : InRange(dOutB[j])

\* C6: cache admission after AI resolution: a result with confidence below
\* 0.3 is never written; a result with confidence 0.3 or more is written and
\* is then found by a lookup of the same transaction.
SavedIds == {saveCalls[j].id : j \in 1..Len(saveCalls)}

C6_CacheAdmission ==
    (pc = "batchDone" /\ saveThrew = {}) =>
        \A j \in 1..Len(transactionsNeedingAI) :
            LET transaction == transactionsNeedingAI[j]
            IN  /\ aiResults[j].confidence < 30 => transaction.id \notin SavedIds
                /\ aiResults[j].confidence >= 30 =>
                       /\ transaction.id \in SavedIds
                       /\ checkTaxCache(transaction) # NULL

\* C7: a transaction that an earlier request of the process resolved by AI
\* with confidence 0.8 is resolved from the cache by a later request, which
\* sends it in no prompt.
C7_WriteBackShortCircuit ==
    (Answered /\ response.status = 200) =>
        \A j \in 1..Len(response.results) :
            response.results[j].description \in aiSeen =>
                /\ response.results[j].source = "cache"
                /\ \A p \in 1..Len(prompts) : \A e \in 1..Len(prompts[p]) :
                       prompts[p][e].description # response.results[j].description

\* C8: phase ordering within a slice: while the external call is out, and
\* ever after, the cache lookup of every transaction of the slice has
\* completed; no transaction that hit the cache is among those sent; a slice
\* whose transactions all hit the cache sends no prompt.
CacheHitIds == {batchResults[j].id : j \in {h \in 1..Len(batchResults) :
                                               batchResults[h].source = "cache"}}

C8_CacheBeforeCall ==
    /\ pc \in {"call", "phase3", "batchDone"} => k = Len(batch)
    /\ pc = "call" =>
           /\ prompts # <<>>
           /\ prompts[Len(prompts)] = BuildPrompt(transactionsNeedingAI)
           /\ \A j \in 1..Len(transactionsNeedingAI) :
                  transactionsNeedingAI[j].id \notin CacheHitIds
    /\ (pc \in {"phase1", "batchDone"} /\ transactionsNeedingAI = <<>>) =>
           Len(prompts) <= i \div BATCH_SIZE

\* reached: the call of a slice of two or more transactions is out
C8_Witness == pc = "call" /\ Len(batch) >= 2 /\ Len(prompts[Len(prompts)]) >= 2

\* C9: single-transaction analysis: a reference classification with
\* confidence 0.8 or more is answered from the reference data at cost 0
\* without invoking the engine; otherwise the engine is invoked exactly once,
\* with a batch of just that transaction.
C9_ReferenceShortCircuit ==
    (spc \in {"engine", "responded"} /\ sReference # NotClassified) =>
        IF sReference # NULL /\ sReference.confidence >= 80
        THEN /\ spc = "responded"
             /\ sResponse.status = 200
             /\ sResponse.source = "reference_data"
             /\ sResponse.cost = 0
             /\ sResponse.result = sReference
             /\ sEngineCalls = <<>>
        ELSE /\ Len(sEngineCalls) = 1
             /\ Len(sEngineCalls[1]) = 1
             /\ sEngineCalls[1][1].description = sReq.description
             /\ sEngineCalls[1][1].amount = sReq.amount

\* reached: a reference result of exactly the acceptance threshold was answered
C9_Witness ==
    /\ spc = "responded"
    /\ sReference # NotClassified
    /\ sReference # NULL
    /\ sReference.confidence = 80
    /\ sResponse.source = "reference_data"

\* C10: a cache write that throws is not fatal: the result stays unsaved but
\* is kept, the request is answered, and every transaction of it has exactly
\* one result.
C10_CacheFailureNotFatal ==
    (Answered /\ saveThrew # {}) =>
        /\ response.status = 200
        /\ \A t \in 1..Len(transactions) :
               CountOf(response.results, transactions[t].id) = 1
        /\ \A j \in 1..Len(response.results) :
               response.results[j].id \in saveThrew => response.results[j].source = "ai"


\* C11: validation precedes the pipeline: a request holding a transaction
\* whose description is missing is answered with a validation error (400),
\* and no such transaction is ever part of a prompt.
HasMalformed(txs) == \E t \in 1..Len(txs) : txs[t].description = NULL

C11_ValidationPrecedesPipeline ==
    /\ \A p \in 1..Len(prompts) : \A e \in 1..Len(prompts[p]) :
           prompts[p][e].description # NULL
    /\ (pc = "responded" /\ HasMalformed(transactions)) => response.status = 400

\* C12: bounded waiting: every accepted batch request is eventually answered,
\* also when the external service never answers a call.
C12_BoundedWaiting == (pc = "loop") ~> (pc = "responded")


\* entries of the log as a reader sees them
LogEntries == readAllLogs(lLog)
Completed(r) == lCalls[r].outcome # "pending"
AllCompleted == Len(lCalls) >= 1 /\ \A r \in 1..Len(lCalls) : Completed(r)
Responses == Cardinality({r \in 1..Len(lCalls) : lCalls[r].outcome = "response"})

\* a criteria object selects the call r
Selects(criteria, r) ==
    /\ criteria.service # NULL => criteria.service = lCalls[r].service
    /\ criteria.method # NULL => criteria.method = lCalls[r].method
    /\ criteria.userId # NULL => criteria.userId = lCalls[r].userId
    /\ criteria.success # NULL /\ criteria.success.b = (lCalls[r].outcome = "response")

\* C13: one log entry per API call: once logResponse(r) or logError(r) has
\* followed logRequest, the log holds for r an entry with the request's
\* service, method and metadata together with its response or error, and
\* searchLogs by service, method or userId combined with success returns it.
C13_OneEntryPerCall ==
    lCleans = 0 =>
        /\ \A r \in 1..Len(lCalls) : Completed(r) =>
               \E j \in 1..Len(LogEntries) :
                   LET e == LogEntries[j]
                   IN  /\ e.requestId = r
                       /\ e.service = lCalls[r].service
                       /\ e.method = lCalls[r].method
                       /\ e.metadata # NULL
                       /\ e.metadata.userId = lCalls[r].userId
                       /\ e.response # NULL
                       /\ e.response.success = (lCalls[r].outcome = "response")
                       /\ lCalls[r].outcome = "error" => e.error # NULL
        /\ (lOut # NULL /\ lOut.op = "search") =>
               \A r \in 1..Len(lCalls) : (Completed(r) /\ Selects(lOut.criteria, r)) =>
                   /\ ~lOut.result.threw
                   /\ \E j \in 1..Len(lOut.result.logs) : lOut.result.logs[j].requestId = r

\* C14: performance metrics count API calls: for a log of k calls, each
\* completed by logResponse or logError, totalRequests is k, successful plus
\* failed is k, and the success rate is the fraction of the k calls answered
\* by logResponse.
C14_MetricsCountCalls ==
    (/\ lOut # NULL
     /\ lOut.op \in {"report", "analytics"}
     /\ lOut.timeRange = "week"
     /\ lCleans = 0
     /\ AllCompleted)
    => /\ ~lOut.result.threw
       /\ lOut.result.totalRequests = Len(lCalls)
       /\ lOut.op = "report" =>
              /\ lOut.result.successfulRequests = Responses
              /\ lOut.result.successfulRequests + lOut.result.failedRequests = Len(lCalls)
       /\ lOut.op = "analytics" =>
              /\ lOut.result.successRate.den # 0
              /\ lOut.result.successRate.num * Len(lCalls) = Responses * lOut.result.successRate.den

\* C15: retention: cleanOldLogs(d) removes the entries older than d days and
\* keeps every newer entry, unchanged and in the original order; the entries
\* it kept stay in the log; /clean reports removedCount = before - after.
IsIn(e, logs) == \E j \in 1..Len(logs) : logs[j] = e

C15_Retention ==
    /\ (lOut # NULL /\ lOut.op = "clean") =>
           LET before == lOut.before
               stays(e) == IsIn(e, LogEntries)
           IN  /\ \A j \in 1..Len(before) :
                      /\ before[j].timestamp > lNow - lOut.days => IsIn(before[j], LogEntries)
                      /\ before[j].timestamp < lNow - lOut.days => ~IsIn(before[j], LogEntries)
               /\ LogEntries = SelectSeq(before, stays)
               /\ lOut.removedCount = Len(before) - Len(LogEntries)
    /\ \A j \in 1..Len(lKept) : IsIn(lKept[j], LogEntries)


\* what a payload of the documented grammars says
SaysOk == <<"o", "k">>
SaysTime == <<"a", "t", " ", "1", "2", ":", "3", "0">>

ExpectedOf(o) ==
    IF o \in {"good", "oldgood"}
    THEN MakeResult(TRUE, 80, SaysOk, 100, Chars_Personal)
    ELSE MakeResult(TRUE, 90, SaysTime, 50, Chars_Personal)

SameFields(r, e) ==
    /\ r.isTaxDeductible = e.isTaxDeductible
    /\ r.confidence = e.confidence
    /\ r.reasoning = e.reasoning
    /\ r.businessUsePercentage = e.businessUsePercentage

IsFallback(r) ==
    /\ ~r.isTaxDeductible
    /\ r.confidence = 30
    /\ r.businessUsePercentage = 0
    /\ r.reasoning \in {<<"Could not parse AI response - manual review required">>,
                      <<"Could not parse AI response">>}

\* positions of the reply lines whose leading index is j
LinesOf(ls, j) == {p \in 1..Len(ls) : ls[p].index = j}

\* C16: decoder output length: for N transactions and any reply (empty,
\* fewer or more lines than N, repeated or out-of-order indices) the decoder
\* returns N results, result j decoded from a line of index j; an index
\* without a line gets the fallback result, lines of other indices are
\* ignored.
C16_DecoderOutputLength ==
    dpc = "lines" =>
        /\ Len(dOut) = dN
        /\ Len(dOutB) = dN
        /\ \A j \in 1..dN :
               IF LinesOf(dEntry.lines, j) = {}
               THEN IsFallback(dOut[j]) /\ IsFallback(dOutB[j])
               ELSE \E p \in LinesOf(dEntry.lines, j) :
                        SameFields(dOut[j], ExpectedOf(dEntry.lines[p].pay))

\* C17: index matching: the line taken for index j has j as its leading
\* index, and a line of index j is taken whenever the reply has one; a line
\* of another index (12 for j = 2) or one that only contains `j:` in its
\* payload is never taken.
C17_IndexMatching ==
    dpc = "lines" =>
        \A j \in 1..dN :
            LET at == FindLineFor(NonBlankLines(dAnalysis), NumToStr(j))
            IN  /\ at # 0 => dEntry.lines[at].index = j
                /\ LinesOf(dEntry.lines, j) # {} => at # 0

\* C18: decoding a well-formed reply line returns what the line says: for a
\* line `j: <fields>` of the compact grammar or of the older grammar, with
\* in-range values, result j has that flag, confidence, reasoning and
\* business use.
C18_WellFormedLineDecoded ==
    /\ dpc = "batch" =>
           \A j \in 1..dN : dEntry.opts[j] \in {"good", "time"} =>
               SameFields(dOut[j], ExpectedOf(dEntry.opts[j]))
    /\ dpc = "older" =>
           \A j \in 1..dN : dEntry.opts[j] # "missing" =>
               /\ SameFields(dOut[j], ExpectedOf(dEntry.opts[j]))
               /\ SameFields(dOutB[j], ExpectedOf(dEntry.opts[j]))

\* C19: an index for which no candidate line is found (no line starts with
\* `j:`, holds `j:` or has j at its start before a ':') gets the fallback
\* result: confidence 0.3, not deductible, business use 0, a could-not-parse
\* reasoning; decoding yields a result for every transaction whatever the
\* reply, the other entries being decoded as usual.
NoCandidate(analysis, j) ==
    LET lines == NonBlankLines(analysis)
    IN  \A p \in 1..Len(lines) :
            /\ ~includes(lines[p], NumToStr(j) \o <<":">>)
            /\ ~matchesIndexRegExp(lines[p], NumToStr(j))

NoPrefixLine(analysis, j) ==
    LET lines == NonBlankLines(analysis)
    IN  \A p \in 1..Len(lines) : ~startsWith(lines[p], NumToStr(j) \o <<":">>)

HasSeg(segs, x) == \E p \in 1..Len(segs) : segs[p] = x

ExpectedLine(segs) ==
    MakeResult(HasSeg(segs, Seg_d1),
               IF HasSeg(segs, Seg_c0) THEN 0 ELSE IF HasSeg(segs, Seg_c08) THEN 80 ELSE 50,
               IF HasSeg(segs, Seg_rtime) THEN SaysTime ELSE <<"AI analysis completed">>,
               IF HasSeg(segs, Seg_b40) THEN 40 ELSE 0,
               Chars_Personal)

ConfidenceZeroReply ==
    <<"c", "o", "n", "f", "i", "d", "e", "n", "c", "e", ":", " ", "0", "\n">>

C20_FieldDefaults ==
    /\ dpc = "line" => dOut[1] = ExpectedLine(dEntry.segs)
    /\ (dpc = "kv" /\ dAnalysis = ConfidenceZeroReply) => dOut[1].confidence = 0

\* entries of the slice answered from the cache; they are pushed first
CacheEntries == Len(batch) - Len(transactionsNeedingAI)

Tags == {"cache", "ai", "uncategorised"}

\* C21: source tagging: every result of a slice carries a source tag; the
\* entries answered from the cache are tagged 'cache'; an entry tagged 'ai'
\* was decoded, with confidence above 0.3, from the line the reply holds for
\* its own index, so an entry whose index has no line, or whose external
\* call failed, is never tagged 'ai'.
C21_SourceTagging ==
    pc = "batchDone" =>
        \A j \in 1..Len(batchResults) :
            LET e == batchResults[j]
                n == j - CacheEntries
            IN  /\ e.source \in Tags
                /\ j <= CacheEntries => e.source = "cache"
                /\ e.source = "ai" =>
                       /\ ~callFailed
                       /\ replied # NULL
                       /\ n \in 1..Len(replied.lines)
                       /\ replied.lines[n] \in {"good", "time"}
                       /\ SameFields(e, ExpectedOf(replied.lines[n]))
                       /\ e.confidence > 30

RECURSIVE Flatten(_)
Flatten(ss) == IF ss = <<>> THEN <<>> ELSE Head(ss) \o Flatten(Tail(ss))

C24_Pacing ==
    /\ pc \in {"phase1", "call", "phase3", "batchDone", "pace"} =>
           pauses = Len(slices) - 1
    /\ pc = "loop" => pauses = Len(slices)
    /\ pc = "pace" => Len(Flatten(slices)) < Len(transactions)
    /\ Answered => pauses = Len(slices) - 1

C24_Witness ==
    /\ pc = "responded"
    /\ Len(transactions) = BATCH_SIZE + 1
    /\ Len(slices) = 2
    /\ pauses = 1

IdsOf(xs) == {xs[j].id : j \in 1..Len(xs)}
FlightOf(r) == {c \in cFlight : c.req = r}

\* C23: sequential dispatch within a request: an invocation never has two
\* external calls in flight; while the call of a slice is in flight the
\* results of all earlier slices, and of no other, have been appended; and
\* invocations that interleave neither lose nor mix results: the results of
\* an invocation are of its own transactions, all of them once it answered.
C23_SequentialDispatch ==
    \A r \in Invocations :
        LET h == cHandlers[r]
        IN  /\ Cardinality(FlightOf(r)) <= 1
            /\ \A c \in FlightOf(r) :
                   /\ h.pc = "call"
                   /\ c.offset <= Len(h.transactions)
                   /\ IdsOf(h.results) = IdsOf(SubSeq(h.transactions, 1, c.offset))
            /\ IdsOf(h.results) \subseteq IdsOf(h.transactions)
            /\ h.status = 200 => IdsOf(h.results) = IdsOf(h.transactions)

\* two invocations wait for their calls at the same time, one for its second slice
C23_Witness ==
    \E r1, r2 \in Invocations :
        /\ r1 # r2
        /\ \E c \in FlightOf(r1) : c.offset = BATCH_SIZE
        /\ FlightOf(r2) # {}
        /\ Len(cHandlers[r1].results) >= BATCH_SIZE

\* the last n elements of xs, all of them when there are fewer
LastOf(xs, n) == SubSeq(xs, Max(1, Len(xs) - n + 1), Len(xs))

\* C25: the live log endpoint returns the 10 most recently written entries
\* of the log (all entries when there are fewer than 10) together with the
\* total number of entries.
C25_LiveReturnsLatest ==
    (lOut # NULL /\ lOut.op = "live") =>
        /\ lOut.total = Len(LogEntries)
        /\ lOut.logs = LastOf(LogEntries, LIVE_ENTRIES)

Configured == gToken # NULL /\ gToken # Str(<<>>)

\* the token the request carries as a Bearer credential, if it has one
BearerTokenOf(req) ==
    IF req.authorization # NULL /\ startsWith(req.authorization.str, Chars_Bearer)
    THEN Str(SubSeq(req.authorization.str, Len(Chars_Bearer) + 1, Len(req.authorization.str)))
    ELSE NULL

Absent(v) == v = NULL \/ v = Str(<<>>)

Rejected == gpc = "responded" /\ gStatus = 401 /\ gReached = "none"
Reaches == gpc = "next" \/ (gpc = "responded" /\ gReached = gReq.route /\ gStatus = 200)

\* C26: admin gate of the logs API: with ADMIN_API_TOKEN configured, a
\* request whose x-admin-token and Bearer token are absent or different
\* from it gets 401 and reaches no logs handler; a request carrying the
\* exact token (as x-admin-token, or as Bearer token when it has no
\* x-admin-token) reaches the handler of its route; with no token
\* configured every request is let through.
C26_AdminGate ==
    gReq # NULL =>
        /\ gReached \in {"none", gReq.route}
        /\ ~Configured => Reaches
        /\ (Configured /\ gReq.xAdminToken # gToken /\ BearerTokenOf(gReq) # gToken)
               => Rejected
        /\ (Configured /\ gReq.xAdminToken = gToken) => Reaches
        /\ (Configured /\ Absent(gReq.xAdminToken) /\ BearerTokenOf(gReq) = gToken)
               => Reaches

\* JSON texts written to the file, over all its lines
RECURSIVE Written(_)
Written(file) == IF file = <<>> THEN 0 ELSE Len(Head(file)) + Written(Tail(file))

\* C27: logging survives cleaning: after logRequest / logResponse / logError
\* calls and cleanOldLogs(d), every entry the cleaning retained and every
\* entry logged afterwards is returned by searchLogs({}) as its own entry;
\* no line of the log ever holds two entries merged into one unreadable text.
C27_LoggingSurvivesCleaning ==
    LET found == searchLogs(lLog, NoCriteria)
    IN  /\ \A p \in 1..Len(lLog) : Len(lLog[p]) = 1
        /\ ~found.threw
        /\ Len(found.logs) = Written(lLog)
        /\ \A j \in 1..Len(lKept) : IsIn(lKept[j], found.logs)

\* C30: log readers never fail on the logger's own output: for every log
\* written by logRequest, logResponse and logError calls,
\* generatePerformanceReport, generateAnalytics and searchLogs with any
\* criteria (userId included) return normally.
C30_ReadersNeverFail ==
    (lOut # NULL /\ lOut.op \in {"search", "report", "analytics"}) => ~lOut.result.threw

RECURSIVE Waiting(_)
Waiting(drains) == IF drains = <<>> THEN 0 ELSE Len(Head(drains)) + Waiting(Tail(drains))

NoWriteFailed == qFailed = {} /\ qRejected = {}

C29_ProcessingEnds == isProcessing ~> ~isProcessing
====
